---- MODULE Spec2Model ----
(***************************************************************************)
(* The memoset of lurk-rs (src/coroutine/memoset): the evaluation-time     *)
(* Scope, the native transcript builder, the LogMemo once-cells and the    *)
(* circuit pass (CircuitScope / CoroutineCircuit) that rebuilds the        *)
(* transcript and the LogUp accumulator.                                   *)
(*                                                                         *)
(* Heap pointers are modelled structurally (the Store interns by content): *)
(* a Ptr is a tagged record, a cons is a record of two Ptrs.  The field    *)
(* hash of a Ptr is collision free, so the randomness r of a transcript is *)
(* modelled by the content of the list it hashes.  The LogUp accumulator   *)
(* sum 1/(r+x) is modelled by the signed multiplicity of every record x:   *)
(* it is zero iff every record's additions and removals cancel.            *)
(***************************************************************************)
EXTENDS Integers, Sequences, FiniteSets, TLC

\* ---------------------------------------------------------------- bounds
\* largest argument of a top-level query
MaxArg == 1
\* number of Scope::query calls of a run
MaxCalls == 2
\* largest default_rc a Scope is constructed with
MaxRc == 2
\* largest Q::count() of the Query implementation a Scope is instantiated with
MaxFamilies == 2
\* largest amount a fabricated removal count is raised by
MaxForge == 1
\* largest n of a factorial(n) queried on its own
MaxFact == 4
\* the further Scope::synthesize calls of a run
MaxPasses == 1

\* ------------------------------------------------------- program constants
DEFAULT_RC_FOR_QUERY == 1
DEFAULT_TRANSCRIBE_INTERNAL_INSERTIONS == FALSE

VARIABLES
    count,                          \* Q::count() of the Query implementation
    queries,                        \* Scope.queries: key -> value
    dependencies,                   \* Scope.dependencies: key -> Seq(Q)
    toplevel_insertions,            \* Scope.toplevel_insertions: Seq(kv)
    internal_insertions,            \* Scope.internal_insertions: Seq(key)
    unique_inserted_keys,           \* Scope.unique_inserted_keys: index -> Seq(key)
    transcribe_internal_insertions, \* Scope.transcribe_internal_insertions
    default_rc,                     \* Scope.default_rc
    multiset,                       \* LogMemo.multiset: kv -> multiplicity
    r,                              \* LogMemo.r (OnceCell)
    transcript,                     \* LogMemo.transcript (OnceCell)
    allocated_r,                    \* LogMemo.allocated_r (OnceCell)
    stack,                          \* the evaluations in progress (call stack)
    aborted,                        \* "" or the message of the panic that ended the run
    calls,                          \* history: the forms passed to Scope::query
    late,                           \* history: Scope::query was called after finalization
    last,                           \* history: what the last operation was and returned
    circuit                         \* the state of a running Scope::synthesize

scope_vars == <<queries, dependencies, toplevel_insertions, internal_insertions,
                unique_inserted_keys, multiset>>
config_vars == <<count, transcribe_internal_insertions, default_rc>>
memo_vars == <<r, transcript, allocated_r>>
vars == <<count, queries, dependencies, toplevel_insertions, internal_insertions,
          unique_inserted_keys, transcribe_internal_insertions, default_rc,
          multiset, r, transcript, allocated_r, stack, aborted, calls, late, last, circuit>>

\* ------------------------------------------------------------------ Store
nil == [tag |-> "Nil"]
num(n) == [tag |-> "Num", n |-> n]
intern_symbol(name) == [tag |-> "Sym", name |-> name]
cons(a, b) == [tag |-> "Cons", car |-> a, cdr |-> b]
\* ZPtr: the tag and the content hash (collision free, so the content itself)
hash_ptr(p) == [ztag |-> p.tag, value |-> p]
to_ptr(z) == z.value

\* Option / OnceCell
None == [some |-> FALSE]
Some(v) == [some |-> TRUE, v |-> v]

\* the empty map
EmptyMap == [x \in {} |-> 0]

\* Seq helpers
Last(s) == s[Len(s)]
Front(s) == SubSeq(s, 1, Len(s) - 1)
Range(s) == {s[i] : i \in DOMAIN s}

\* -------------------------------------------------------------- MultiSet
MultiSet_new == EmptyMap
MultiSet_add(ms, x) ==
    IF x \in DOMAIN ms THEN [ms EXCEPT ![x] = @ + 1]
    ELSE [y \in DOMAIN ms \cup {x} |-> IF y = x THEN 1 ELSE ms[y]]
MultiSet_get(ms, x) == IF x \in DOMAIN ms THEN Some(ms[x]) ELSE None

\* a LogMemo::add that counts a record once, however often it is added
LogMemo_add_once(ms, kv) == IF kv \in DOMAIN ms THEN ms ELSE MultiSet_add(ms, kv)
\* a LogMemo::add that counts every record twice
LogMemo_add_twice(ms, kv) == MultiSet_add(MultiSet_add(ms, kv), kv)
\* LogMemo::add
LogMemo_add(ms, kv) == MultiSet_add(ms, kv)
\* LogMemo::count
LogMemo_count(ms, form) ==
    IF MultiSet_get(ms, form).some THEN MultiSet_get(ms, form).v ELSE 0

\* ------------------------------------------------------------- Transcript
Transcript_new == nil
Transcript_add(acc, item) == cons(item, acc)
make_kv(key, value) == cons(key, value)
make_kv_count(kv, n) == cons(kv, num(n))

\* ------------------------------------------------------------ Query (Q)
\* The symbols of the query families, by family index; the name after the
\* last family of the implementation in use decodes to no query.
SymbolNames == <<"factorial", "family1", "family2", "family3", "family4">>
Factorial(n) == [index |-> 0, arg |-> n]
Family(i, n) == [index |-> i, arg |-> n]
\* the symbol of the next family
symbol_next(q) == SymbolNames[q.index + 2]
symbol(q) == SymbolNames[q.index + 1]

\* Query::to_ptr: (symbol . argument)
Query_to_ptr(q) == cons(intern_symbol(symbol(q)), q.arg)
\* a from_ptr that knows the symbols of every family, whatever the count
Query_from_ptr_any(cnt, ptr) ==
    Some([index |-> CHOOSE i \in 0..(Len(SymbolNames) - 1) :
                        ptr.car.name = SymbolNames[i + 1],
          arg |-> ptr.cdr])
\* Query::from_ptr: the query a form encodes, None when its head names no family
Query_from_ptr(cnt, ptr) ==
    LET head == ptr.car
        body == ptr.cdr
    IN  IF \E i \in 0..(cnt - 1) : head.name = SymbolNames[i + 1]
        THEN Some([index |-> CHOOSE i \in 0..(cnt - 1) : head.name = SymbolNames[i + 1],
                   arg |-> body])
        ELSE None
Query_index(q) == q.index

\* a Factorial that asks for itself instead of its predecessor
Factorial_eval_calls_same(q) ==
    IF q.arg.n = 0 THEN <<>> ELSE <<Factorial(q.arg)>>
\* DemoQuery::eval, Factorial: the subqueries it asks for through recursive_eval
Factorial_eval_calls(q) ==
    IF q.arg.n = 0 THEN <<>> ELSE <<Factorial(num(q.arg.n - 1))>>
\* a Factorial that adds n to the subquery result
Factorial_eval_result_add(q, vals) ==
    IF q.arg.n = 0 THEN num(1) ELSE num(q.arg.n + vals[1].n)
\* DemoQuery::eval, Factorial: its result from the subquery results
Factorial_eval_result(q, vals) ==
    IF q.arg.n = 0 THEN num(1) ELSE num(q.arg.n * vals[1].n)

\* A further family i >= 1 of a Query implementation: base case at 0, else it
\* asks twice for the query of family i-1 with the argument one lower.
Family_eval_calls(q) ==
    IF q.arg.n = 0 THEN <<>>
    ELSE <<Family(q.index - 1, num(q.arg.n - 1)), Family(q.index - 1, num(q.arg.n - 1))>>
Family_eval_result(q, vals) ==
    IF q.arg.n = 0 THEN num(1) ELSE num(vals[1].n + vals[2].n)

eval_calls(q) == IF q.index = 0 THEN Factorial_eval_calls(q) ELSE Family_eval_calls(q)
eval_result(q, vals) ==
    IF q.index = 0 THEN Factorial_eval_result(q, vals) ELSE Family_eval_result(q, vals)

\* the forms a caller passes to Scope::query; those of a family beyond the
\* implementation in use decode to no query
Forms ==
    {cons(intern_symbol(SymbolNames[i]), num(n)) : i \in 1..MaxFamilies, n \in 0..MaxArg}

\* HashMap insert / entry().and_modify(push).or_insert(vec![..])
map_insert(m, k, v) == [x \in DOMAIN m \cup {k} |-> IF x = k THEN v ELSE m[x]]
\* a push that skips an element the vector already holds
map_push_new(m, k, v) ==
    IF k \in DOMAIN m
    THEN [m EXCEPT ![k] = IF v \in Range(@) THEN @ ELSE Append(@, v)]
    ELSE map_insert(m, k, <<v>>)
\* a push to the front of the list
map_push_front(m, k, v) ==
    IF k \in DOMAIN m THEN [m EXCEPT ![k] = <<v>> \o @] ELSE map_insert(m, k, <<v>>)
\* entry(k).and_modify(|l| l.push(v)).or_insert_with(|| vec![v])
map_push(m, k, v) ==
    IF k \in DOMAIN m THEN [m EXCEPT ![k] = Append(@, v)] ELSE map_insert(m, k, <<v>>)

\* an insert with key and value swapped
queries_insert_swapped(qs, form, evaluated) == map_insert(qs, evaluated, form)
\* a table that memoizes nothing
queries_insert_skipped(qs, form, evaluated) == qs
\* a table that keeps only the value it was given last
queries_insert_only(qs, form, evaluated) == map_insert(EmptyMap, form, evaluated)
\* query_aux: self.queries.insert(form, evaluated)
queries_insert(qs, form, evaluated) == map_insert(qs, form, evaluated)

\* ------------------------------------------------------------------ Init
\* Scope::new(transcribe_internal_insertions, default_rc) over a Query
\* implementation of `count` families
CircuitIdle ==
    [pc |-> "idle", acc |-> EmptyMap, transcript |-> nil, r |-> nil, multiset |-> EmptyMap,
     z |-> <<>>, work |-> <<>>, steps |-> <<>>, forged |-> FALSE, missing |-> {},
     result |-> "", pass |-> 0,
     r_matches_transcript |-> FALSE, acc_is_zero |-> FALSE]
Init ==
    /\ count \in 1..MaxFamilies
    /\ transcribe_internal_insertions \in BOOLEAN
    /\ default_rc \in DEFAULT_RC_FOR_QUERY..MaxRc
    /\ queries = EmptyMap
    /\ dependencies = EmptyMap
    /\ toplevel_insertions = <<>>
    /\ internal_insertions = <<>>
    /\ unique_inserted_keys = EmptyMap
    /\ multiset = MultiSet_new
    /\ r = None
    /\ transcript = None
    /\ allocated_r = None
    /\ stack = <<>>
    /\ aborted = ""
    /\ calls = <<>>
    /\ late = FALSE
    /\ last = [op |-> "new", ret |-> None]
    /\ circuit = CircuitIdle

\* LogMemo::is_finalized
is_finalized == transcript.some

\* a frame of the call stack: query_aux evaluating `query` (decoded from
\* `form`), entered from Scope::query or from query_recursively with `child`
Frame(form, query, entry, child) ==
    [form |-> form, query |-> query, entry |-> entry, child |-> child, vals |-> <<>>]

\* ----------------------------------------------------------- Scope::query
\* Scope::query(form): on a memoized form it completes at once; otherwise it
\* decodes the form (aborting on None) and starts evaluating it.
Query(form) ==
    /\ aborted = "" /\ stack = <<>> /\ circuit.pc = "idle"
    /\ Len(calls) < MaxCalls
    /\ calls' = Append(calls, form)
    /\ late' = (late \/ is_finalized)
    /\ IF form \in DOMAIN queries
       THEN LET response == queries[form]
                kv == make_kv(form, response)
            IN  /\ multiset' = LogMemo_add(multiset, kv)
                /\ toplevel_insertions' = Append(toplevel_insertions, kv)
                /\ last' = [op |-> "query", ret |-> Some(response)]
                /\ UNCHANGED <<stack, aborted>>
       ELSE IF ~Query_from_ptr(count, form).some
       THEN /\ aborted' = "invalid query"
            /\ last' = [op |-> "query", ret |-> None]
            /\ UNCHANGED <<multiset, toplevel_insertions, stack>>
       ELSE /\ stack' = <<Frame(form, Query_from_ptr(count, form).v, "query", None)>>
            /\ last' = [op |-> "query", ret |-> None]
            /\ UNCHANGED <<multiset, toplevel_insertions, aborted>>
    /\ UNCHANGED <<queries, dependencies, internal_insertions, unique_inserted_keys>>
    /\ UNCHANGED <<config_vars, memo_vars, circuit>>

\* Scope::query_recursively(parent, child), called by the eval on top of the
\* stack for its next subquery: the key is pushed to internal_insertions, then
\* query_aux either finds it memoized (and the dependency is registered) or
\* starts evaluating it.
QueryRecursively ==
    /\ aborted = "" /\ stack # <<>>
    /\ LET top == Last(stack)
           todo == eval_calls(top.query)
       IN  /\ Len(top.vals) < Len(todo)
           /\ LET child == todo[Len(top.vals) + 1]
                  form == Query_to_ptr(child)
              IN  /\ internal_insertions' = Append(internal_insertions, form)
                  /\ IF form \in DOMAIN queries
                     THEN LET response == queries[form]
                              kv == make_kv(form, response)
                          IN  /\ multiset' = LogMemo_add(multiset, kv)
                              /\ dependencies' =
                                     map_push(dependencies, Query_to_ptr(top.query), child)
                              /\ stack' = Append(Front(stack),
                                                 [top EXCEPT !.vals = Append(@, response)])
                              /\ UNCHANGED aborted
                     ELSE IF ~Query_from_ptr(count, form).some
                     THEN /\ aborted' = "invalid query"
                          /\ UNCHANGED <<multiset, dependencies, stack>>
                     ELSE /\ stack' = Append(stack,
                                 Frame(form, Query_from_ptr(count, form).v,
                                       "query_recursively", Some(child)))
                          /\ UNCHANGED <<multiset, dependencies, aborted>>
    /\ last' = [op |-> "query_recursively", ret |-> None]
    /\ UNCHANGED <<queries, toplevel_insertions, unique_inserted_keys, calls, late>>
    /\ UNCHANGED <<config_vars, memo_vars, circuit>>

\* The eval on top of the stack returns: query_aux memoizes the value and adds
\* the record to the multiset; Scope::query then pushes the record to
\* toplevel_insertions, query_recursively registers the child under its parent.
EvalReturn ==
    /\ aborted = "" /\ stack # <<>>
    /\ LET top == Last(stack)
           evaluated == eval_result(top.query, top.vals)
           kv == make_kv(top.form, evaluated)
       IN  /\ Len(top.vals) = Len(eval_calls(top.query))
           /\ queries' = queries_insert(queries, top.form, evaluated)
           /\ multiset' = LogMemo_add(multiset, kv)
           /\ IF top.entry = "query"
              THEN /\ toplevel_insertions' = Append(toplevel_insertions, kv)
                   /\ stack' = Front(stack)
                   /\ last' = [op |-> "query", ret |-> Some(evaluated)]
                   /\ UNCHANGED dependencies
              ELSE LET parent == stack[Len(stack) - 1]
                   IN  /\ dependencies' =
                              map_push(dependencies, Query_to_ptr(parent.query), top.child.v)
                       /\ stack' = Append(SubSeq(stack, 1, Len(stack) - 2),
                                          [parent EXCEPT !.vals = Append(@, evaluated)])
                       /\ last' = [op |-> "query_recursively", ret |-> Some(evaluated)]
                       /\ UNCHANGED toplevel_insertions
    /\ UNCHANGED <<internal_insertions, unique_inserted_keys, aborted, calls, late>>
    /\ UNCHANGED <<config_vars, memo_vars, circuit>>

\* ------------------------------------------------- Scope::build_transcript
\* an insert that keeps repetitions
IndexSet_insert_again(set, x) == Append(set, x)
\* IndexSet::insert
IndexSet_insert(set, x) == IF x \in Range(set) THEN set ELSE Append(set, x)

\* an insert that pushes the key to unique_keys at every record
bt_insert_every(st, kv) ==
    IF st.panic # "" THEN st
    ELSE IF ~Query_from_ptr(count, kv.car).some
    THEN [st EXCEPT !.panic = "bad query"]
    ELSE [st EXCEPT !.insertions =
                        IF kv.car \in DOMAIN @
                        THEN [@ EXCEPT ![kv.car] = IndexSet_insert(@, kv)]
                        ELSE map_insert(@, kv.car, <<kv>>),
                    !.unique_keys =
                        map_push(@, Query_index(Query_from_ptr(count, kv.car).v), kv.car)]
\* the `insert` closure: bucket kv under its key; a key seen for the first
\* time is decoded and pushed to unique_keys[index]
bt_insert(st, kv) ==
    IF st.panic # "" THEN st
    ELSE IF kv.car \in DOMAIN st.insertions
    THEN [st EXCEPT !.insertions[kv.car] = IndexSet_insert(@, kv)]
    ELSE IF ~Query_from_ptr(count, kv.car).some
    THEN [st EXCEPT !.panic = "bad query"]
    ELSE [st EXCEPT !.insertions = map_insert(@, kv.car, <<kv>>),
                    !.unique_keys =
                        map_push(@, Query_index(Query_from_ptr(count, kv.car).v), kv.car)]

\* the first insert loop, over the top-level records
RECURSIVE bt_insert_toplevel(_, _)
bt_insert_toplevel(st, kvs) ==
    IF kvs = <<>> THEN st ELSE bt_insert_toplevel(bt_insert(st, Head(kvs)), Tail(kvs))

\* the second insert loop, over internal_insertions_kv: each internal key with
\* its memoized value
RECURSIVE bt_insert_internal(_, _)
bt_insert_internal(st, keys) ==
    IF keys = <<>> \/ st.panic # "" THEN st
    ELSE IF Head(keys) \notin DOMAIN queries
    THEN [st EXCEPT !.panic = "value missing for key"]
    ELSE bt_insert_internal(bt_insert(st, make_kv(Head(keys), queries[Head(keys)])),
                            Tail(keys))

\* a removal record that removes each record once
bt_removal_count_one(kv) == 1
\* the count of a removal record
bt_removal_count(kv) == LogMemo_count(multiset, kv)

\* the insertion record of the first dependency only
bt_dependency_records_first(deps) ==
    IF deps = <<>> \/ ~transcribe_internal_insertions THEN <<>>
    ELSE <<make_kv(Query_to_ptr(Head(deps)), queries[Query_to_ptr(Head(deps))])>>
\* the insertion records of the dependencies of a key, one per use
RECURSIVE bt_dependency_records(_)
bt_dependency_records(deps) ==
    IF deps = <<>> THEN <<>>
    ELSE (IF transcribe_internal_insertions
          THEN <<make_kv(Query_to_ptr(Head(deps)), queries[Query_to_ptr(Head(deps))])>>
          ELSE <<>>)
         \o bt_dependency_records(Tail(deps))

\* whether a dependency of `key` has no memoized value
bt_dependency_missing(key) ==
    /\ key \in DOMAIN dependencies
    /\ \E i \in DOMAIN dependencies[key] :
           Query_to_ptr(dependencies[key][i]) \notin DOMAIN queries

\* the records emitted for the bucket of one key: per kv of the bucket, the
\* dependency insertions and then the removal record
RECURSIVE bt_bucket_records(_, _)
bt_bucket_records(key, kvs) ==
    IF kvs = <<>> THEN <<>>
    ELSE (IF key \in DOMAIN dependencies
          THEN bt_dependency_records(dependencies[key]) ELSE <<>>)
         \o <<make_kv_count(Head(kvs), bt_removal_count(Head(kvs)))>>
         \o bt_bucket_records(key, Tail(kvs))

\* the records emitted for the keys of one family, in unique_keys order, after
\* the records `out` emitted so far
RECURSIVE bt_family_records(_, _, _)
bt_family_records(st, keys, out) ==
    IF keys = <<>> \/ out.panic # "" THEN out
    ELSE bt_family_records(st, Tail(keys),
             IF bt_dependency_missing(Head(keys))
             THEN [out EXCEPT !.panic = "value missing for dependency key"]
             ELSE [out EXCEPT !.recs =
                       @ \o bt_bucket_records(Head(keys), st.insertions[Head(keys)])])

\* a family loop that runs from the last family index down to 0
RECURSIVE bt_families_descending(_, _, _)
bt_families_descending(st, index, out) ==
    IF index >= count \/ out.panic # "" THEN out
    ELSE bt_families_descending(st, index + 1,
             IF (count - 1 - index) \notin DOMAIN st.unique_keys
             THEN [out EXCEPT !.panic = "unreachable"]
             ELSE bt_family_records(st, st.unique_keys[count - 1 - index], out))

\* for index in 0..Q::count(): the families in index order
RECURSIVE bt_families(_, _, _)
bt_families(st, index, out) ==
    IF index >= count \/ out.panic # "" THEN out
    ELSE bt_families(st, index + 1,
             IF index \notin DOMAIN st.unique_keys
             THEN [out EXCEPT !.panic = "unreachable"]
             ELSE bt_family_records(st, st.unique_keys[index], out))

\* transcript.add over the records in emission order
RECURSIVE bt_add_all(_, _)
bt_add_all(acc, recs) ==
    IF recs = <<>> THEN acc ELSE bt_add_all(Transcript_add(acc, Head(recs)), Tail(recs))

\* a transcript that takes the records of the families before the top-level ones
bt_transcript_families_first(st, fams) ==
    [transcript |-> IF st.panic # "" \/ fams.panic # "" THEN Transcript_new
                    ELSE bt_add_all(bt_add_all(Transcript_new, fams.recs),
                                    toplevel_insertions),
     unique_keys |-> st.unique_keys,
     panic |-> IF st.panic # "" THEN st.panic ELSE fams.panic]
\* the transcript: the top-level records, then the records of the families
bt_transcript(st, fams) ==
    [transcript |-> IF st.panic # "" \/ fams.panic # "" THEN Transcript_new
                    ELSE bt_add_all(bt_add_all(Transcript_new, toplevel_insertions),
                                    fams.recs),
     unique_keys |-> st.unique_keys,
     panic |-> IF st.panic # "" THEN st.panic ELSE fams.panic]
bt_emit(st) ==
    bt_transcript(st, IF st.panic # "" THEN [recs |-> <<>>, panic |-> ""]
                      ELSE bt_families(st, 0, [recs |-> <<>>, panic |-> ""]))

\* Scope::build_transcript: (transcript, unique_keys), or the panic it ends in
build_transcript ==
    bt_emit(bt_insert_internal(
                bt_insert_toplevel([insertions |-> EmptyMap, unique_keys |-> EmptyMap,
                                    panic |-> ""],
                                   toplevel_insertions),
                internal_insertions))

\* Transcript::r: the hash of the top-level cons (asserted to be a cons)
Transcript_r(t) == hash_ptr(t).value

\* a LogMemo::finalize_transcript over plain fields instead of once-cells
LogMemo_finalize_transcript_overwrite(t) ==
    IF hash_ptr(t).ztag # "Cons"
    THEN [panic |-> "assertion failed: transcript is not a cons", r |-> r,
          transcript |-> transcript]
    ELSE [panic |-> "", r |-> Some(Transcript_r(t)), transcript |-> Some(t)]
\* a LogMemo::finalize_transcript that sets r and leaves the transcript cell
LogMemo_finalize_transcript_r_only(t) ==
    IF hash_ptr(t).ztag # "Cons"
    THEN [panic |-> "assertion failed: transcript is not a cons", r |-> r,
          transcript |-> transcript]
    ELSE IF r.some
    THEN [panic |-> "r has already been set", r |-> r, transcript |-> transcript]
    ELSE [panic |-> "", r |-> Some(Transcript_r(t)), transcript |-> transcript]
\* LogMemo::finalize_transcript: the cells after it, or the panic it ends in
LogMemo_finalize_transcript(t) ==
    IF hash_ptr(t).ztag # "Cons"
    THEN [panic |-> "assertion failed: transcript is not a cons", r |-> r,
          transcript |-> transcript]
    ELSE IF r.some
    THEN [panic |-> "r has already been set", r |-> r, transcript |-> transcript]
    ELSE IF transcript.some
    THEN [panic |-> "transcript already finalized", r |-> Some(Transcript_r(t)),
          transcript |-> transcript]
    ELSE [panic |-> "", r |-> Some(Transcript_r(t)), transcript |-> Some(t)]

\* Scope::finalize_transcript after the memoset took the transcript `bt`
finalize_store(bt, fin) ==
    IF fin.panic # ""
    THEN [panic |-> fin.panic, r |-> fin.r, transcript |-> fin.transcript,
          unique_inserted_keys |-> unique_inserted_keys, ret |-> None]
    ELSE [panic |-> "", r |-> fin.r, transcript |-> fin.transcript,
          unique_inserted_keys |-> bt.unique_keys, ret |-> Some(bt.transcript)]
\* a Scope::finalize_transcript that hands over the transcript only the first time
finalize_built_once(bt) ==
    IF bt.panic # ""
    THEN [panic |-> bt.panic, r |-> r, transcript |-> transcript,
          unique_inserted_keys |-> unique_inserted_keys, ret |-> None]
    ELSE IF is_finalized
    THEN [panic |-> "", r |-> r, transcript |-> transcript,
          unique_inserted_keys |-> unique_inserted_keys, ret |-> transcript]
    ELSE finalize_store(bt, LogMemo_finalize_transcript(bt.transcript))
\* a Scope::finalize_transcript that stores whatever was built, unchecked
finalize_built_unchecked(bt) ==
    [panic |-> "", r |-> Some(Transcript_r(bt.transcript)),
     transcript |-> Some(bt.transcript),
     unique_inserted_keys |-> bt.unique_keys, ret |-> Some(bt.transcript)]
\* Scope::finalize_transcript after build_transcript returned `bt`
finalize_built(bt) ==
    IF bt.panic # ""
    THEN [panic |-> bt.panic, r |-> r, transcript |-> transcript,
          unique_inserted_keys |-> unique_inserted_keys, ret |-> None]
    ELSE finalize_store(bt, LogMemo_finalize_transcript(bt.transcript))
\* Scope::finalize_transcript: build, hand to the memoset, keep the unique keys
finalize_transcript == finalize_built(build_transcript)

\* an ensure_transcript_finalized that finalizes whatever is_finalized says
ensure_transcript_finalized_always == finalize_transcript
\* Scope::ensure_transcript_finalized
ensure_transcript_finalized ==
    IF ~is_finalized THEN finalize_transcript
    ELSE [panic |-> "", r |-> r, transcript |-> transcript,
          unique_inserted_keys |-> unique_inserted_keys, ret |-> None]

\* a call of Scope::finalize_transcript between queries
FinalizeTranscript ==
    /\ aborted = "" /\ stack = <<>> /\ circuit.pc = "idle"
    /\ \E fin \in {finalize_transcript} :
           /\ aborted' = fin.panic
           /\ r' = fin.r
           /\ transcript' = fin.transcript
           /\ unique_inserted_keys' = fin.unique_inserted_keys
           /\ last' = [op |-> "finalize_transcript", ret |-> fin.ret]
    /\ UNCHANGED <<queries, dependencies, toplevel_insertions, internal_insertions,
                   multiset, allocated_r, stack, calls, late, circuit>>
    /\ UNCHANGED config_vars

\* ------------------------------------------------------ CircuitTranscript
CircuitTranscript_new == nil
CircuitTranscript_add(acc, item) == cons(item, acc)
CircuitTranscript_make_kv(key, value) == cons(key, value)
CircuitTranscript_make_kv_count(kv, n) == cons(kv, num(n))
\* CircuitTranscript::r: the hash wire of the list
CircuitTranscript_r(acc) == hash_ptr(acc).value
\* AllocatedPtr::pick / CircuitTranscript::pick
pick(condition, a, b) == IF condition THEN a ELSE b

\* the field element an allocated pointer carries as its hash
hash(p) == IF p.tag = "Num" THEN p.n ELSE 0

\* --------------------------------------------------------- LogMemoCircuit
\* The accumulator maps every record to additions minus removals.
acc_get(acc, kv) == IF kv \in DOMAIN acc THEN acc[kv] ELSE 0
\* LogMemoCircuit::synthesize_add: acc + 1/(r+kv)
synthesize_add(acc, kv) == map_insert(acc, kv, acc_get(acc, kv) + 1)
\* a removal that subtracts a single 1/(r+kv) whatever the count
synthesize_remove_one(acc, kv, n) == map_insert(acc, kv, acc_get(acc, kv) - 1)
\* LogMemoCircuit::synthesize_remove_n: acc - n/(r+kv)
synthesize_remove_n(acc, kv, n) == map_insert(acc, kv, acc_get(acc, kv) - n)
\* LogMemoCircuit::count
LogMemoCircuit_count(ms, form) ==
    IF MultiSet_get(ms, form).some THEN MultiSet_get(ms, form).v ELSE 0
\* enforce_equal_zero on the accumulator
acc_is_zero(acc) == \A kv \in DOMAIN acc : acc[kv] = 0

\* ----------------------------------------------------------- CircuitScope
\* CircuitScope::from_queries: the memo table over hashed pointers
from_queries(qs) ==
    [z \in {hash_ptr(k) : k \in DOMAIN qs} |-> hash_ptr(qs[to_ptr(z)])]

\* the queries field of the CircuitScope: the memo table of the Scope, less
\* the keys whose value it has no assignment for
CircuitScope_queries ==
    from_queries([k \in DOMAIN queries \ circuit.missing |-> queries[k]])

\* an insert that transcribes under transcribe_internal_insertions alone
synthesize_insert_query_flag_only(acc, tr, key, value, is_toplevel) ==
    [err |-> "",
     value |-> value,
     acc |-> synthesize_add(acc, CircuitTranscript_make_kv(key, value)),
     transcript |-> IF transcribe_internal_insertions
                    THEN CircuitTranscript_add(tr, CircuitTranscript_make_kv(key, value))
                    ELSE tr]
\* CircuitScope::synthesize_insert_query
synthesize_insert_query(acc, tr, key, value, is_toplevel) ==
    [err |-> "",
     value |-> value,
     acc |-> synthesize_add(acc, CircuitTranscript_make_kv(key, value)),
     transcript |-> IF is_toplevel \/ transcribe_internal_insertions
                    THEN CircuitTranscript_add(tr, CircuitTranscript_make_kv(key, value))
                    ELSE tr]

\* CircuitScope::synthesize_query_aux: the value is the prover's witness from
\* the memo table (AssignmentMissing without one), nil for a dummy
synthesize_query_aux(acc, tr, key, not_dummy, is_toplevel) ==
    IF not_dummy /\ hash_ptr(key) \notin DOMAIN CircuitScope_queries
    THEN [err |-> "AssignmentMissing", value |-> nil, acc |-> acc, transcript |-> tr]
    ELSE synthesize_insert_query(acc, tr, key,
             IF not_dummy THEN to_ptr(CircuitScope_queries[hash_ptr(key)]) ELSE nil,
             is_toplevel)
synthesize_query(acc, tr, key, not_dummy) ==
    synthesize_query_aux(acc, tr, key, not_dummy, TRUE)
synthesize_internal_query(acc, tr, key, not_dummy) ==
    synthesize_query_aux(acc, tr, key, not_dummy, FALSE)

\* a removal count read from the native memoset instead of the circuit's
remove_count_native(cms, kv) == LogMemo_count(multiset, kv)
\* the count a removal uses: what the circuit memoset holds for the record
remove_count(cms, kv) == LogMemoCircuit_count(cms, kv)

\* CircuitScope::synthesize_remove
synthesize_remove(cms, acc, tr, key, value) ==
    [acc |-> synthesize_remove_n(acc, CircuitTranscript_make_kv(key, value),
                                 remove_count(cms, CircuitTranscript_make_kv(key, value))),
     transcript |->
         CircuitTranscript_add(tr,
             CircuitTranscript_make_kv_count(
                 CircuitTranscript_make_kv(key, value),
                 remove_count(cms, CircuitTranscript_make_kv(key, value))))]

\* RecursiveQuery::recurse, after the internal query `sub`: value, acc and
\* transcript are picked between the recursive path and the immediate one
recurse_pick(is_recursive, post, base_case, acc, tr, sub) ==
    IF sub.err # ""
    THEN [err |-> sub.err, value |-> nil, acc |-> acc, transcript |-> tr]
    ELSE [err |-> "",
          value |-> pick(is_recursive, post, base_case),
          acc |-> pick(is_recursive, sub.acc, acc),
          transcript |-> pick(is_recursive, sub.transcript, tr)]

\* DemoCircuitQuery::post_recursion, Factorial(n): n * subquery_result
Factorial_post_recursion(n, subquery_result) == num(hash(n) * hash(subquery_result))

\* RecursiveQuery::recurse for Factorial: the subquery (symbol . args) is
\* inserted as an internal query under is_recursive
Factorial_recurse_with(n, is_recursive, base_case, acc, tr, sub) ==
    recurse_pick(is_recursive, Factorial_post_recursion(n, sub.value), base_case,
                 acc, tr, sub)
Factorial_recurse(n, args, is_recursive, base_case, acc, tr) ==
    Factorial_recurse_with(n, is_recursive, base_case, acc, tr,
        synthesize_internal_query(acc, tr, cons(intern_symbol("factorial"), args),
                                  is_recursive))

\* DemoCircuitQuery::synthesize_eval, Factorial(n): new_n = n - 1, recursive
\* unless n is zero
Factorial_synthesize_eval(n, acc, tr) ==
    Factorial_recurse(n, num(hash(n) - 1), ~(hash(n) = 0), num(1), acc, tr)

\* synthesize_eval of a further family i >= 1: under n # 0 the subquery
\* (family i-1 . n-1) is inserted twice, and the results are added
Family_subquery(q) == cons(intern_symbol(SymbolNames[q.index]), num(hash(q.arg) - 1))
Family_second(q, acc, tr, s1, s2) ==
    IF s1.err # "" THEN [err |-> s1.err, value |-> nil, acc |-> acc, transcript |-> tr]
    ELSE recurse_pick(hash(q.arg) # 0, num(hash(s1.value) + hash(s2.value)), num(1),
                      acc, tr, s2)
Family_first(q, acc, tr, s1) ==
    Family_second(q, acc, tr, s1,
        synthesize_internal_query(s1.acc, s1.transcript, Family_subquery(q),
                                  hash(q.arg) # 0))
Family_synthesize_eval(q, acc, tr) ==
    Family_first(q, acc, tr,
        synthesize_internal_query(acc, tr, Family_subquery(q), hash(q.arg) # 0))

synthesize_eval(q, acc, tr) ==
    IF q.index = 0 THEN Factorial_synthesize_eval(q.arg, acc, tr)
    ELSE Family_synthesize_eval(q, acc, tr)

\* Query::dummy_from_index
dummy_from_index(index) == IF index = 0 THEN Factorial(num(0)) ELSE Family(index, num(0))

\* the result of the removal kept for a dummy slot too
prove_query_pick_always(cs, not_dummy, rm) ==
    [cs EXCEPT !.acc = rm.acc, !.transcript = rm.transcript]
\* CircuitScope::synthesize_prove_query, its end: the result of the removal
\* `rm` is kept only for a real slot
prove_query_pick(cs, not_dummy, rm) ==
    [cs EXCEPT !.acc = pick(not_dummy, rm.acc, cs.acc),
               !.transcript = pick(not_dummy, rm.transcript, cs.transcript)]
\* CircuitScope::synthesize_prove_query after synthesize_eval returned `ev`
\* (unwrapped): the record (key . value) is removed
prove_query_remove(cms, cs, allocated_key, not_dummy, ev) ==
    IF ev.err # "" THEN [cs EXCEPT !.panic = "unwrap on an Err value"]
    ELSE prove_query_pick(cs, not_dummy,
             synthesize_remove(cms, ev.acc, ev.transcript, allocated_key, ev.value))
\* CircuitScope::synthesize_prove_query
synthesize_prove_query(cms, cs, allocated_key, circuit_query, not_dummy) ==
    IF cs.panic # "" THEN cs
    ELSE prove_query_remove(cms, cs, allocated_key, not_dummy,
             synthesize_eval(circuit_query, cs.acc, cs.transcript))

\* CircuitScope::synthesize_prove_key_query: key is Some(ptr) or None
synthesize_prove_key_query(cms, cs, key, index) ==
    IF cs.panic # "" THEN cs
    ELSE IF key.some /\ ~Query_from_ptr(count, key.v).some
    THEN [cs EXCEPT !.panic = "unwrap on a None value"]
    ELSE synthesize_prove_query(cms, cs,
             IF key.some THEN key.v ELSE nil,
             IF key.some THEN Query_from_ptr(count, key.v).v ELSE dummy_from_index(index),
             key.some)

\* CircuitScope::synthesize_toplevel_query after synthesize_query returned `res`
toplevel_query_check(cs, value, res) ==
    IF res.err # "" THEN [cs EXCEPT !.err = res.err]
    ELSE IF value # res.value THEN [cs EXCEPT !.panic = "assertion failed: value"]
    ELSE [cs EXCEPT !.acc = res.acc, !.transcript = res.transcript]
\* CircuitScope::synthesize_toplevel_query for one top-level record
synthesize_toplevel_query(cs, kv) ==
    IF cs.err # "" \/ cs.panic # "" THEN cs
    ELSE toplevel_query_check(cs, kv.cdr,
             synthesize_query(cs.acc, cs.transcript, kv.car, TRUE))

\* CircuitScope::synthesize_insert_toplevel_queries
RECURSIVE synthesize_insert_toplevel_queries(_, _)
synthesize_insert_toplevel_queries(cs, kvs) ==
    IF kvs = <<>> THEN cs
    ELSE synthesize_insert_toplevel_queries(synthesize_toplevel_query(cs, Head(kvs)),
                                            Tail(kvs))

\* -------------------------------------------------------- CoroutineCircuit
\* keys.iter().map(Some).pad_using(rc, |_| None)
pad_using(keys, rc) ==
    [i \in 1..(IF Len(keys) > rc THEN Len(keys) ELSE rc) |->
        IF i <= Len(keys) THEN Some(keys[i]) ELSE None]

\* the loop over the padded keys
RECURSIVE prove_slots(_, _, _, _)
prove_slots(cms, cs, slots, index) ==
    IF slots = <<>> THEN cs
    ELSE prove_slots(cms, synthesize_prove_key_query(cms, cs, Head(slots), index),
                     Tail(slots), index)

\* z_out with c, e and k rotated
CoroutineCircuit_z_out_rotated(z, cs) ==
    [panic |-> cs.panic,
     z_out |-> <<z[2], z[3], z[1], cs.acc, cs.transcript, num(cs.r)>>]
\* CircuitScope::io and z_out
CoroutineCircuit_z_out(z, cs) ==
    [panic |-> cs.panic,
     z_out |-> <<z[1], z[2], z[3], cs.acc, cs.transcript, num(cs.r)>>]

\* CoroutineCircuit::synthesize on z = [c, e, k, memoset_acc, transcript, r]:
\* z_out, or the panic it ends in
CoroutineCircuit_synthesize(cms, z, keys, index, rc) ==
    CoroutineCircuit_z_out(z,
        prove_slots(cms,
                    [acc |-> z[4], transcript |-> z[5], r |-> hash(z[6]),
                     err |-> "", panic |-> ""],
                    pad_using(keys, rc), index))

\* chunks one key wider than rc
chunks_wider(keys, rc) ==
    IF keys = <<>> THEN <<>>
    ELSE IF Len(keys) <= rc + 1 THEN <<keys>>
    ELSE <<SubSeq(keys, 1, rc + 1), SubSeq(keys, rc + 2, Len(keys))>>
\* slice::chunks(rc)
RECURSIVE chunks(_, _)
chunks(keys, rc) ==
    IF keys = <<>> THEN <<>>
    ELSE IF Len(keys) <= rc THEN <<keys>>
    ELSE <<SubSeq(keys, 1, rc)>> \o chunks(SubSeq(keys, rc + 1, Len(keys)), rc)

\* Scope::rc_for_query
rc_for_query(index) == default_rc

\* AllocatedNum::alloc_infallible: a new wire of the constraint system `cs`
alloc_infallible(cs, value) == [value |-> value, cs |-> cs]

\* a wire allocated at every call, the cell overwritten
LogMemo_allocated_r_again(cell, rcell, cs) ==
    Some(IF rcell.some THEN Some(alloc_infallible(cs, rcell.v)) ELSE None)
\* LogMemo::allocated_r: get_or_init of the cell from r, in the constraint
\* system `cs`
LogMemo_allocated_r(cell, rcell, cs) ==
    IF cell.some THEN cell
    ELSE Some(IF rcell.some THEN Some(alloc_infallible(cs, rcell.v)) ELSE None)

\* the orders in which a HashMap may iterate its keys
Orders(D) == {o \in [1..Cardinality(D) -> D] : Range(o) = D}

\* for (index, keys) in unique_inserted_keys.iter(): for chunk in keys.chunks(rc)
RECURSIVE chunk_jobs(_, _)
chunk_jobs(order, uniq) ==
    IF order = <<>> THEN <<>>
    ELSE [i \in DOMAIN chunks(uniq[Head(order)], rc_for_query(Head(order))) |->
             [index |-> Head(order),
              keys |-> chunks(uniq[Head(order)], rc_for_query(Head(order)))[i]]]
         \o chunk_jobs(Tail(order), uniq)

\* ------------------------------------------------------ Scope::synthesize
\* Scope::synthesize up to its loop over the families: the transcript is
\* finalized if need be, the memoset converted to its circuit form, the
\* CircuitScope initialised and the top-level queries inserted. `from` holds
\* the locals of the call as it is entered; its constraint system is from.pass.
Scope_synthesize(from) ==
    /\ aborted = "" /\ stack = <<>>
    /\ \E fin \in {ensure_transcript_finalized} :
       \E cell \in {LogMemo_allocated_r(allocated_r, fin.r, from.pass)} :
       \E cs \in {synthesize_insert_toplevel_queries(
                      [acc |-> EmptyMap, transcript |-> CircuitTranscript_new,
                       err |-> "", panic |-> ""],
                      toplevel_insertions)} :
           /\ r' = fin.r
           /\ transcript' = fin.transcript
           /\ unique_inserted_keys' = fin.unique_inserted_keys
           /\ IF fin.panic # ""
              THEN /\ aborted' = fin.panic
                   /\ UNCHANGED allocated_r
                   /\ circuit' = from
              ELSE IF ~cell.v.some
              THEN /\ aborted' = "unwrap on a None value"
                   /\ allocated_r' = cell
                   /\ circuit' = from
              ELSE IF cs.panic # ""
              THEN /\ aborted' = cs.panic
                   /\ allocated_r' = cell
                   /\ circuit' = from
              ELSE IF cs.err # ""
              THEN /\ allocated_r' = cell
                   /\ circuit' = [from EXCEPT !.pc = "done", !.result = cs.err]
                   /\ UNCHANGED aborted
              ELSE /\ allocated_r' = cell
                   /\ \E order \in Orders(DOMAIN fin.unique_inserted_keys) :
                          circuit' = [from EXCEPT
                              !.pc = "steps",
                              !.acc = cs.acc,
                              !.transcript = cs.transcript,
                              !.r = cell.v.v.value,
                              !.multiset = multiset,
                              !.z = <<nil, nil, nil, cs.acc, cs.transcript,
                                      num(cell.v.v.value)>>,
                              !.work = chunk_jobs(order, fin.unique_inserted_keys)]
                   /\ UNCHANGED aborted
    /\ last' = [op |-> "synthesize", ret |-> None]
    /\ UNCHANGED <<queries, dependencies, toplevel_insertions, internal_insertions,
                   multiset, stack, calls, late>>
    /\ UNCHANGED config_vars

\* the first Scope::synthesize of a run
SynthesizeStart == circuit.pc = "idle" /\ Scope_synthesize(circuit)

\* a further Scope::synthesize on the same scope, with a constraint system of
\* its own, after an earlier one has returned
SynthesizeAgain ==
    /\ circuit.pc = "done" /\ circuit.pass < MaxPasses
    /\ Scope_synthesize([CircuitIdle EXCEPT !.pass = circuit.pass + 1])

\* One pass of the chunk loop of Scope::synthesize with the circuit memoset
\* `cms`: CoroutineCircuit::new on the next chunk, CoroutineCircuit::synthesize,
\* and update_from_io from z_out.
chunk_pass(cms, forged) ==
    /\ aborted = "" /\ circuit.pc = "steps" /\ circuit.work # <<>>
    /\ \E job \in {Head(circuit.work)} :
       \E rc \in {rc_for_query(job.index)} :
           IF ~(Len(job.keys) <= rc)
           THEN /\ aborted' = "assertion failed: keys.len() <= rc"
                /\ UNCHANGED circuit
           ELSE \E out \in {CoroutineCircuit_synthesize(cms, circuit.z,
                                                        job.keys, job.index, rc)} :
                IF out.panic # ""
                THEN /\ aborted' = out.panic
                     /\ UNCHANGED circuit
                ELSE /\ circuit' = [circuit EXCEPT
                             !.acc = out.z_out[4],
                             !.transcript = out.z_out[5],
                             !.r = hash(out.z_out[6]),
                             !.z = out.z_out,
                             !.work = Tail(@),
                             !.forged = forged,
                             !.steps = Append(@, [index |-> job.index,
                                                  slots |-> pad_using(job.keys, rc)])]
                     /\ UNCHANGED aborted
    /\ last' = [op |-> "synthesize", ret |-> None]
    /\ UNCHANGED <<scope_vars, config_vars, memo_vars, stack, calls, late>>

\* the pass of an honest prover: the circuit memoset is LogMemo::to_circuit's
CoroutineStep == chunk_pass(circuit.multiset, circuit.forged)

\* The end of Scope::synthesize: CircuitScope::finalize states the two closing
\* constraints, r_matches_transcript and acc_is_zero, and Ok(()) is returned.
SynthesizeFinalize ==
    /\ aborted = "" /\ circuit.pc = "steps" /\ circuit.work = <<>>
    /\ circuit' = [circuit EXCEPT
           !.pc = "done",
           !.result = "Ok",
           !.r_matches_transcript = (CircuitTranscript_r(circuit.transcript) = circuit.r),
           !.acc_is_zero = acc_is_zero(circuit.acc)]
    /\ last' = [op |-> "synthesize", ret |-> Some("Ok")]
    /\ UNCHANGED <<scope_vars, config_vars, memo_vars, stack, aborted, calls, late>>

\* The pass of a dishonest prover (once per run): the multiplicity the circuit
\* memoset holds for the record of one key of the chunk is raised above the
\* native one, everything else as in CoroutineStep.
FabricateCount ==
    /\ ~circuit.forged /\ circuit.work # <<>>
    /\ \E key \in Range(Head(circuit.work).keys) :
       \E extra \in 1..MaxForge :
       \E kv \in {make_kv(key, queries[key])} :
          chunk_pass(map_insert(circuit.multiset, kv,
                                LogMemoCircuit_count(circuit.multiset, kv) + extra),
                     TRUE)

Next ==
    \/ \E form \in Forms : Query(form)
    \/ QueryRecursively
    \/ EvalReturn
    \/ FinalizeTranscript
    \/ SynthesizeStart
    \/ CoroutineStep
    \/ SynthesizeFinalize

Spec == Init /\ [][Next]_vars

\* the runs of Scope::query calls followed by a Scope::synthesize in which the
\* prover may fabricate one multiplicity
NextForged ==
    \/ \E form \in Forms : Query(form)
    \/ QueryRecursively
    \/ EvalReturn
    \/ SynthesizeStart
    \/ CoroutineStep
    \/ SynthesizeFinalize
    \/ FabricateCount
SpecForged == Init /\ [][NextForged]_vars

\* the runs of Scope::query and Scope::finalize_transcript calls, without a
\* synthesis
NextNative ==
    \/ \E form \in Forms : Query(form)
    \/ QueryRecursively
    \/ EvalReturn
    \/ FinalizeTranscript
SpecNative == Init /\ [][NextNative]_vars

\* the runs of Scope::query calls followed by a Scope::synthesize, which
\* finalizes the transcript itself
NextSynthesize ==
    \/ \E form \in Forms : Query(form)
    \/ QueryRecursively
    \/ EvalReturn
    \/ SynthesizeStart
    \/ CoroutineStep
    \/ SynthesizeFinalize
SpecSynthesize == Init /\ [][NextSynthesize]_vars

\* the runs of Scope::query calls of DemoQuery::Factorial forms alone
FactorialForms == {Query_to_ptr(Factorial(num(n))) : n \in 0..MaxFact}
NextFactorial ==
    \/ \E form \in FactorialForms : Query(form)
    \/ QueryRecursively
    \/ EvalReturn
SpecFactorial == Init /\ [][NextFactorial]_vars

\* The runs of Scope::query calls on forms of any family, with the scheduling
\* of the code: an eval, once called, runs on without suspending, so a pending
\* query_recursively call or return is eventually made. The caller is under
\* no obligation to call Scope::query.
NextEval ==
    \/ \E form \in Forms \cup FactorialForms : Query(form)
    \/ QueryRecursively
    \/ EvalReturn
SpecEval ==
    Init /\ [][NextEval]_vars /\ WF_vars(QueryRecursively) /\ WF_vars(EvalReturn)

\* the same runs followed by a Scope::synthesize
NextFactorialSynthesize ==
    \/ \E form \in FactorialForms : Query(form)
    \/ QueryRecursively
    \/ EvalReturn
    \/ SynthesizeStart
    \/ CoroutineStep
    \/ SynthesizeFinalize
SpecFactorialSynthesize == Init /\ [][NextFactorialSynthesize]_vars

\* the runs in which a scope is synthesized more than once, after an explicit
\* finalize_transcript or without one
NextResynthesize ==
    \/ \E form \in FactorialForms : Query(form)
    \/ QueryRecursively
    \/ EvalReturn
    \/ FinalizeTranscript
    \/ SynthesizeStart
    \/ CoroutineStep
    \/ SynthesizeFinalize
    \/ SynthesizeAgain
SpecResynthesize == Init /\ [][NextResynthesize]_vars

\* A synthesis over a memo table without a value for one memoized key (once
\* per run): the allocation of that value in synthesize_query_aux then fails
\* with AssignmentMissing.
MissingAssignment ==
    /\ aborted = "" /\ stack = <<>> /\ circuit.pc = "idle"
    /\ circuit.missing = {}
    /\ \E key \in DOMAIN queries : circuit' = [circuit EXCEPT !.missing = {key}]
    /\ UNCHANGED <<scope_vars, config_vars, memo_vars, stack, aborted, calls, late, last>>

\* the runs of Scope::query calls followed by a Scope::synthesize in which the
\* value of one key may have no assignment
NextFault ==
    \/ \E form \in Forms : Query(form)
    \/ QueryRecursively
    \/ EvalReturn
    \/ SynthesizeStart
    \/ CoroutineStep
    \/ SynthesizeFinalize
    \/ MissingAssignment
SpecFault == Init /\ [][NextFault]_vars

\* ------------------------------------------------------------- properties
\* the records of a transcript in emission order (the list grows at its head)
RECURSIVE Records(_)
Records(t) == IF t.tag = "Cons" THEN Append(Records(t.cdr), t.car) ELSE <<>>
\* a removal record is ((key . value) . count), an insertion record (key . value)
IsRemoval(rec) == rec.car.tag = "Cons" /\ rec.car.car.tag = "Cons"
\* the positions of the removal records, and of the insertion records of kv
Removals(recs) == {p \in DOMAIN recs : IsRemoval(recs[p])}
Insertions(recs, kv) == {p \in DOMAIN recs : recs[p] = kv}
\* how often x occurs in a sequence
Occurrences(seq, x) == Cardinality({p \in DOMAIN seq : seq[p] = x})
\* the family index of a key
FamilyOf(key) == Query_index(Query_from_ptr(count, key).v)
\* the keys in order of use: the top-level forms, then the internal insertions
UseOrder == [i \in DOMAIN toplevel_insertions |-> toplevel_insertions[i].car]
            \o internal_insertions
FirstUse(key) == CHOOSE p \in DOMAIN UseOrder :
                     UseOrder[p] = key /\ \A q \in 1..(p - 1) : UseOrder[q] # key
\* Scope::synthesize returned Ok(()) on a scope no query was made on after the
\* transcript was finalized
Synthesized == circuit.pc = "done" /\ circuit.result = "Ok" /\ ~late

\* C1: after Scope::synthesize completed on a scope built by Scope::query calls
\* (either transcribe_internal_insertions, any rc), the accumulator is zero:
\* for every record the additions of the circuit pass equal the total count
\* its removals subtracted.
C1_AccumulatorZero ==
    Synthesized =>
        /\ circuit.acc_is_zero
        /\ \A kv \in DOMAIN circuit.acc : circuit.acc[kv] = 0
\* a completed pass over two top-level queries and a subquery, one of its
\* chunks padded with a dummy slot
C1_Witness ==
    /\ Synthesized /\ circuit.acc_is_zero
    /\ Len(toplevel_insertions) = 2 /\ internal_insertions # <<>>
    /\ \E i \in DOMAIN circuit.steps : \E j \in DOMAIN circuit.steps[i].slots :
           ~circuit.steps[i].slots[j].some

\* C2 (as stated): the circuit pass appends the same records in the same order
\* as Scope::build_transcript, so the circuit transcript hash equals r.
C2_TranscriptsAgree ==
    Synthesized =>
        /\ Records(circuit.transcript) = Records(transcript.v)
        /\ circuit.r_matches_transcript

\* C3 (as stated): in every finalized transcript the count of a removal record
\* of kv equals the number of insertion records of kv in that transcript.
C3_CountIsInsertionRecords ==
    is_finalized =>
        \A p \in Removals(Records(transcript.v)) :
            Records(transcript.v)[p].cdr.n =
                Cardinality(Insertions(Records(transcript.v), Records(transcript.v)[p].car))
\* C3 (amended): the count of a removal record of kv equals the number of
\* insertion records of kv in the transcript plus, when internal insertions are
\* not transcribed, the number of internal insertions of its key.
C3_CountIsAllInsertions ==
    (is_finalized /\ ~late) =>
        \A p \in Removals(Records(transcript.v)) :
            Records(transcript.v)[p].cdr.n =
                Cardinality(Insertions(Records(transcript.v), Records(transcript.v)[p].car))
                + (IF transcribe_internal_insertions THEN 0
                   ELSE Occurrences(internal_insertions, Records(transcript.v)[p].car.car))
\* a transcript without internal insertions whose removal of a record asked for
\* at top level and as a subquery carries the count 2 over one insertion record
C3_Witness ==
    /\ is_finalized /\ ~late /\ ~transcribe_internal_insertions
    /\ \E p \in Removals(Records(transcript.v)) :
           /\ Records(transcript.v)[p].cdr.n = 2
           /\ Cardinality(Insertions(Records(transcript.v),
                                     Records(transcript.v)[p].car)) = 1

\* C4: when one removal of the circuit pass used a count higher than the native
\* multiset count, the closing conditions do not both hold: the accumulator is
\* nonzero or the circuit transcript differs from the finalized one.
C4_FabricatedCountNeverCloses ==
    (circuit.pc = "done" /\ circuit.forged) =>
        ~(circuit.acc_is_zero /\ circuit.r_matches_transcript)
\* a pass with a fabricated count that ran to CircuitScope::finalize
C4_Witness ==
    /\ circuit.pc = "done" /\ circuit.result = "Ok" /\ circuit.forged
    /\ ~circuit.acc_is_zero

\* C5 (as stated): a second Scope::finalize_transcript returns the transcript
\* of the first and leaves r unchanged.
C5_SecondFinalizeReturnsSame ==
    [][(FinalizeTranscript /\ is_finalized) =>
           (last'.ret = transcript /\ r' = r)]_vars
\* C5 (amended): a second Scope::finalize_transcript aborts in the memoset with
\* r and the stored transcript unchanged; the call that may be repeated is
\* ensure_transcript_finalized, as Scope::synthesize makes it: on a finalized
\* scope it leaves r, the transcript and unique_inserted_keys alone.
C5_SecondFinalizeAborts ==
    [][/\ (FinalizeTranscript /\ is_finalized) =>
              /\ aborted' = "r has already been set"
              /\ last'.ret = None
              /\ r' = r /\ transcript' = transcript
              /\ unique_inserted_keys' = unique_inserted_keys
       /\ (SynthesizeStart /\ is_finalized) =>
              /\ aborted' = ""
              /\ r' = r /\ transcript' = transcript
              /\ unique_inserted_keys' = unique_inserted_keys]_vars
\* a second Scope::finalize_transcript was made and aborted
C5_Witness ==
    /\ aborted = "r has already been set"
    /\ last = [op |-> "finalize_transcript", ret |-> None]
    /\ r.some /\ transcript.some

\* C6: r and the stored transcript of the LogMemo are set at most once: once
\* set they never change, and a LogMemo::finalize_transcript on a memoset whose
\* r is set aborts.
C6_SetAtMostOnce ==
    [][/\ r.some => r' = r
       /\ transcript.some => transcript' = transcript
       /\ (FinalizeTranscript /\ r.some) => aborted' # ""]_vars
\* a second finalization, of a transcript other than the stored one, aborted
\* and left the cells as the first set them
C6_Witness ==
    /\ aborted = "r has already been set" /\ late
    /\ build_transcript.panic = ""
    /\ build_transcript.transcript # transcript.v
    /\ r = Some(Transcript_r(transcript.v))

\* C7 (as stated): once the transcript is finalized no operation changes
\* queries, dependencies, toplevel_insertions, internal_insertions or the
\* multiset counts.
C7_FrozenAfterFinalize ==
    [][is_finalized =>
           UNCHANGED <<queries, dependencies, toplevel_insertions,
                       internal_insertions, multiset>>]_vars

\* C8: Scope::query on a memoized key evaluates nothing: queries, dependencies
\* and internal_insertions are unchanged, one record (key . value) is appended
\* to toplevel_insertions, its multiset count grows by one (no other count
\* changes), and the memoized value is returned.
C8_MemoizedQuery ==
    [][(calls' # calls /\ Last(calls') \in DOMAIN queries) =>
           /\ UNCHANGED <<queries, dependencies, internal_insertions>>
           /\ stack' = <<>>
           /\ toplevel_insertions' =
                  Append(toplevel_insertions,
                         make_kv(Last(calls'), queries[Last(calls')]))
           /\ \A kv \in DOMAIN multiset' :
                  LogMemo_count(multiset', kv) =
                      LogMemo_count(multiset, kv)
                      + (IF kv = make_kv(Last(calls'), queries[Last(calls')])
                         THEN 1 ELSE 0)
           /\ DOMAIN multiset \subseteq DOMAIN multiset'
           /\ last'.ret = Some(queries[Last(calls')])]_vars
\* the same form was queried twice: the second call found it memoized
C8_Witness ==
    /\ stack = <<>> /\ aborted = "" /\ last.op = "query"
    /\ Len(calls) = 2 /\ calls[1] = calls[2]
    /\ Len(toplevel_insertions) = 2
    /\ LogMemo_count(multiset, toplevel_insertions[2]) = 2

\* C9: toplevel_insertions holds one record (form . value) per Scope::query
\* call, in call order, and the finalized transcript starts with exactly these
\* records in that order, none of them a removal record and every removal
\* record after them.
C9_TopLevelInCallOrder ==
    /\ (stack = <<>> /\ aborted # "invalid query") =>
           /\ Len(toplevel_insertions) = Len(calls)
           /\ \A i \in DOMAIN calls :
                  toplevel_insertions[i] = make_kv(calls[i], queries[calls[i]])
    /\ (is_finalized /\ ~late) =>
           /\ Len(Records(transcript.v)) >= Len(toplevel_insertions)
           /\ SubSeq(Records(transcript.v), 1, Len(toplevel_insertions))
                  = toplevel_insertions
           /\ \A p \in Removals(Records(transcript.v)) : p > Len(toplevel_insertions)
\* a finalized transcript of two calls with the same form
C9_Witness ==
    /\ is_finalized /\ ~late /\ aborted = ""
    /\ Len(calls) = 2 /\ calls[1] = calls[2]
    /\ Removals(Records(transcript.v)) # {}

\* C10: in the finalized transcript the removal records of a family come
\* before those of every higher family, and within a family they follow the
\* order in which their keys were first used (top-level forms, then internal
\* insertions).
C10_RemovalsByFamilyThenFirstUse ==
    (is_finalized /\ ~late) =>
        \A p, q \in Removals(Records(transcript.v)) :
            p < q =>
                \/ FamilyOf(Records(transcript.v)[p].car.car)
                       < FamilyOf(Records(transcript.v)[q].car.car)
                \/ /\ FamilyOf(Records(transcript.v)[p].car.car)
                          = FamilyOf(Records(transcript.v)[q].car.car)
                   /\ FirstUse(Records(transcript.v)[p].car.car)
                          < FirstUse(Records(transcript.v)[q].car.car)
\* two families with removals, the lower one with two keys of which the one
\* evaluated first was used (as a form) last
C10_Witness ==
    /\ is_finalized /\ ~late /\ count = 2
    /\ \E p, q, s \in Removals(Records(transcript.v)) :
           /\ p < q /\ q < s
           /\ Records(transcript.v)[p].car.car = Query_to_ptr(Factorial(num(1)))
           /\ Records(transcript.v)[q].car.car = Query_to_ptr(Factorial(num(0)))
           /\ FamilyOf(Records(transcript.v)[s].car.car) = 1

\* the slots of a chunk that hold a key, without the padding
RealSlots(keys) == [i \in 1..Len(keys) |-> Some(keys[i])]
\* the CircuitScope a pass starts from
ScopeBefore ==
    [acc |-> circuit.acc, transcript |-> circuit.transcript, r |-> circuit.r,
     err |-> "", panic |-> ""]
\* the CircuitScope after the slots of the next chunk that hold a key
AfterRealSlots ==
    prove_slots(circuit.multiset, ScopeBefore, RealSlots(Head(circuit.work).keys),
                Head(circuit.work).index)

\* C11: a padding slot (key None) of a CoroutineCircuit leaves acc and
\* transcript as they were before the slot: after a pass they are what the
\* slots holding a key alone produce, and proving one more None slot from there
\* changes neither, for the dummy query of every family.
C11_DummySlotLeavesScope ==
    [][(circuit.pc = "steps" /\ circuit'.steps # circuit.steps) =>
          \E real \in {AfterRealSlots} :
              /\ circuit'.acc = real.acc
              /\ circuit'.transcript = real.transcript
              /\ \A index \in 0..(count - 1) :
                     synthesize_prove_key_query(circuit.multiset, real, None, index)
                         = real]_vars
\* a pass over a chunk padded with a None slot has run and changed acc
C11_Witness ==
    /\ circuit.steps # <<>>
    /\ \E i \in DOMAIN Last(circuit.steps).slots : ~Last(circuit.steps).slots[i].some
    /\ \E i \in DOMAIN Last(circuit.steps).slots : Last(circuit.steps).slots[i].some
    /\ circuit.transcript # CircuitTranscript_new

\* values of c, e and k that tell the three apart
CEKValues == {<<nil, nil, nil>>, <<num(1), num(2), num(3)>>}

\* C12: a CoroutineCircuit::synthesize step changes only the acc and transcript
\* components: c, e and k come out as they went in and the output r carries
\* the input's r value, for the list of keys of every chunk a synthesis comes to.
C12_StepKeepsCEKAndR ==
    (aborted = "" /\ circuit.pc = "steps" /\ circuit.work # <<>>) =>
        \A cek \in CEKValues :
        \A keys \in {Head(circuit.work).keys} :
            \E out \in {CoroutineCircuit_synthesize(
                            circuit.multiset,
                            <<cek[1], cek[2], cek[3],
                              circuit.z[4], circuit.z[5], circuit.z[6]>>,
                            keys, Head(circuit.work).index,
                            rc_for_query(Head(circuit.work).index))} :
                out.panic = "" =>
                    /\ SubSeq(out.z_out, 1, 3) = cek
                    /\ hash(out.z_out[6]) = hash(circuit.z[6])
\* one step has run and changed acc and transcript, and another is about to,
\* with c, e, k and r still those of the first input
C12_Witness ==
    /\ aborted = "" /\ circuit.pc = "steps"
    /\ circuit.steps # <<>> /\ circuit.work # <<>>
    /\ SubSeq(circuit.z, 1, 3) = <<nil, nil, nil>>
    /\ circuit.z[6] = num(Transcript_r(transcript.v))
    /\ circuit.z[5] # CircuitTranscript_new

\* ---------------------------------------------------- Scope::query, replayed
\* Scope::query and query_aux as the recursive functions they are in the
\* source: the Scope a sequence of calls leaves, computed call by call from the
\* empty Scope (ret is the value the last query_aux returned).
ScopeNew ==
    [queries |-> EmptyMap, dependencies |-> EmptyMap, toplevel_insertions |-> <<>>,
     internal_insertions |-> <<>>, multiset |-> MultiSet_new, ret |-> nil]
RECURSIVE replay_query_aux(_, _)
RECURSIVE replay_recursive_eval(_, _, _, _)
\* query_aux after the eval of `form` returned `value`
replay_memoize(st, form, value) ==
    [st EXCEPT !.queries = [x \in DOMAIN @ \cup {form} |-> IF x = form THEN value ELSE @[x]],
               !.multiset = MultiSet_add(@, make_kv(form, value)),
               !.ret = value]
replay_evaluated(ev, form, q) == replay_memoize(ev.st, form, eval_result(q, ev.vals))
\* query_recursively after query_aux returned: the child is registered
replay_register(st, q, i, vals) ==
    replay_recursive_eval(
        [st EXCEPT !.dependencies =
            [x \in DOMAIN @ \cup {Query_to_ptr(q)} |->
                IF x = Query_to_ptr(q)
                THEN (IF x \in DOMAIN @ THEN @[x] ELSE <<>>) \o <<eval_calls(q)[i]>>
                ELSE @[x]]],
        q, i + 1, Append(vals, st.ret))
\* the eval of q from its i-th subquery on
replay_recursive_eval(st, q, i, vals) ==
    IF i > Len(eval_calls(q)) THEN [st |-> st, vals |-> vals]
    ELSE replay_register(
             replay_query_aux(
                 [st EXCEPT !.internal_insertions =
                                Append(@, Query_to_ptr(eval_calls(q)[i]))],
                 Query_to_ptr(eval_calls(q)[i])),
             q, i, vals)
replay_query_aux(st, form) ==
    IF form \in DOMAIN st.queries
    THEN [st EXCEPT !.multiset = MultiSet_add(@, make_kv(form, st.queries[form])),
                    !.ret = st.queries[form]]
    ELSE replay_evaluated(
             replay_recursive_eval(st, Query_from_ptr(count, form).v, 1, <<>>),
             form, Query_from_ptr(count, form).v)
\* Scope::query
replay_query(st, form) ==
    [st EXCEPT !.toplevel_insertions = Append(@, make_kv(form, st.ret))]
RECURSIVE replay(_, _)
replay(st, forms) ==
    IF forms = <<>> THEN st
    ELSE replay(replay_query(replay_query_aux(st, Head(forms)), Head(forms)), Tail(forms))

\* C13: transcript construction is deterministic: the Scope after a sequence of
\* Scope::query calls is the one the calls alone determine (under the
\* configuration), before and after finalize_transcript, so build_transcript
\* changes no Scope state; and the finalized transcript and r are what
\* build_transcript computes from that Scope.
C13_TranscriptDeterminedByCalls ==
    (stack = <<>> /\ aborted # "invalid query") =>
        /\ \E st \in {replay(ScopeNew, calls)} :
              /\ queries = st.queries
              /\ dependencies = st.dependencies
              /\ toplevel_insertions = st.toplevel_insertions
              /\ internal_insertions = st.internal_insertions
              /\ multiset = st.multiset
        /\ (is_finalized /\ ~late) =>
              /\ build_transcript.panic = ""
              /\ transcript = Some(build_transcript.transcript)
              /\ r = Some(Transcript_r(build_transcript.transcript))
\* two different calls with subqueries were made and the transcript finalized
C13_Witness ==
    /\ is_finalized /\ ~late /\ aborted = ""
    /\ Len(calls) = 2 /\ calls[1] # calls[2]
    /\ Len(internal_insertions) >= 2
    /\ transcript = Some(build_transcript.transcript)

\* the keys a synthesis asks the memo table for: the top-level ones, and every
\* subquery of a key that is proved
NeededKeys ==
    {toplevel_insertions[i].car : i \in DOMAIN toplevel_insertions}
    \cup Range(internal_insertions)

\* C14: a synthesis failure arising during Scope::synthesize (AssignmentMissing
\* for a key without a value), also one raised inside a query's synthesize_eval
\* during synthesize_prove_query, is returned to the caller as an error: the
\* synthesis does not abort on it, and it does not return Ok past it.
C14_SynthesisFailureReturned ==
    /\ aborted # "unwrap on an Err value"
    /\ (circuit.pc = "done" /\ circuit.missing \cap NeededKeys # {}) =>
           circuit.result = "AssignmentMissing"
\* the failure of a top-level key is returned as the error it is
AssignmentMissingReturned ==
    /\ circuit.pc = "done" /\ circuit.missing # {}
    /\ circuit.result = "AssignmentMissing"

\* n!
RECURSIVE Fact(_)
Fact(n) == IF n = 0 THEN 1 ELSE n * Fact(n - 1)

\* C15: Scope::query of factorial(n) on an empty scope returns n! and leaves
\* queries with exactly the n+1 entries factorial(0..n) (each with its value),
\* toplevel_insertions with exactly 1 record and internal_insertions with
\* exactly n keys, for every n in 0..MaxFact.
C15_FactorialOnEmptyScope ==
    \A n \in 0..MaxFact :
        (calls = <<Query_to_ptr(Factorial(num(n)))>> /\ stack = <<>>) =>
            /\ last = [op |-> "query", ret |-> Some(num(Fact(n)))]
            /\ DOMAIN queries = {Query_to_ptr(Factorial(num(i))) : i \in 0..n}
            /\ Cardinality(DOMAIN queries) = n + 1
            /\ \A i \in 0..n : queries[Query_to_ptr(Factorial(num(i)))] = num(Fact(i))
            /\ toplevel_insertions =
                   <<make_kv(Query_to_ptr(Factorial(num(n))), num(Fact(n)))>>
            /\ Len(internal_insertions) = n
            /\ Cardinality(Range(internal_insertions)) = n
\* factorial(4) was queried on the empty scope and returned 24
C15_Witness ==
    /\ calls = <<Query_to_ptr(Factorial(num(4)))>> /\ stack = <<>>
    /\ last = [op |-> "query", ret |-> Some(num(24))]
    /\ Cardinality(DOMAIN queries) = 5

\* arguments a query may carry: numbers, and pointers that are none
QueryArgs == {num(n) : n \in 0..MaxArg} \cup {nil, cons(num(1), nil)}

\* C16: the query encoding round-trips: from_ptr of q.to_ptr() is q, same family
\* and same argument, for every query of a family of the implementation, and in
\* particular for every subquery query_recursively encoded and query_aux
\* decoded again.
C16_EncodingRoundTrips ==
    /\ \A i \in 0..(count - 1) : \A arg \in QueryArgs :
           \E q \in {IF i = 0 THEN Factorial(arg) ELSE Family(i, arg)} :
               Query_from_ptr(count, Query_to_ptr(q)) = Some(q)
    /\ \A j \in DOMAIN stack :
           stack[j].child.some =>
               /\ stack[j].form = Query_to_ptr(stack[j].child.v)
               /\ stack[j].query = stack[j].child.v
\* a subquery of a query of the last family was encoded by query_recursively
\* and decoded by query_aux, which is evaluating it
C16_Witness ==
    /\ count = MaxFamilies
    /\ Len(stack) = 2
    /\ stack[1].query.index = count - 1
    /\ stack[2].child.some
    /\ stack[2].query = stack[2].child.v
    /\ Query_from_ptr(count, stack[2].form) = Some(stack[2].query)

\* C17: whenever a Scope::query call has returned, every parent key in
\* dependencies has an entry in queries, and so has every child query listed
\* under any parent.
C17_DependenciesMemoized ==
    (stack = <<>> /\ aborted = "") =>
        \A parent \in DOMAIN dependencies :
            /\ parent \in DOMAIN queries
            /\ \A i \in DOMAIN dependencies[parent] :
                   Query_to_ptr(dependencies[parent][i]) \in DOMAIN queries
\* a call has returned that registered two children under its key
C17_Witness ==
    /\ stack = <<>> /\ aborted = "" /\ calls # <<>>
    /\ \E parent \in DOMAIN dependencies :
           /\ Len(dependencies[parent]) = 2
           /\ parent \in DOMAIN queries

\* a sequence without its repetitions, each element where it first appears
RECURSIVE FirstAppearances(_, _)
FirstAppearances(seq, out) ==
    IF seq = <<>> THEN out
    ELSE FirstAppearances(Tail(seq),
                          IF Head(seq) \in Range(out) THEN out ELSE Append(out, Head(seq)))
\* the keys of family f of a sequence of keys, in its order
RECURSIVE KeysOfFamily(_, _)
KeysOfFamily(seq, f) ==
    IF seq = <<>> THEN <<>>
    ELSE (IF FamilyOf(Head(seq)) = f THEN <<Head(seq)>> ELSE <<>>)
         \o KeysOfFamily(Tail(seq), f)

\* C18: after finalize_transcript, unique_inserted_keys[f] lists each distinct
\* key of family f among toplevel_insertions and internal_insertions exactly
\* once, in the order of first appearance in the top-level records followed by
\* the internal keys; no key twice, none under a family other than its own, and
\* a family is listed exactly when it has a key.
C18_UniqueKeysInFirstUseOrder ==
    (is_finalized /\ ~late) =>
        /\ DOMAIN unique_inserted_keys = {FamilyOf(key) : key \in Range(UseOrder)}
        /\ \A f \in DOMAIN unique_inserted_keys :
               /\ unique_inserted_keys[f] =
                      KeysOfFamily(FirstAppearances(UseOrder, <<>>), f)
               /\ \A i, j \in DOMAIN unique_inserted_keys[f] :
                      unique_inserted_keys[f][i] = unique_inserted_keys[f][j] => i = j
               /\ \A i \in DOMAIN unique_inserted_keys[f] :
                      FamilyOf(unique_inserted_keys[f][i]) = f
\* a finalized scope with keys of two families, one family with two keys, and
\* a key that was used more than once
C18_Witness ==
    /\ is_finalized /\ ~late
    /\ Cardinality(DOMAIN unique_inserted_keys) = 2
    /\ \E f \in DOMAIN unique_inserted_keys : Len(unique_inserted_keys[f]) = 2
    /\ \E key \in Range(UseOrder) : Occurrences(UseOrder, key) >= 2

\* the positions of the removal records of a key
RemovalsOf(recs, key) == {p \in Removals(recs) : recs[p].car.car = key}

\* C19: the finalized transcript contains exactly one removal record for each
\* distinct key among the top-level and internal insertions, and none for any
\* other key; its count is the number of times the key was consumed: the
\* Scope::query calls plus the query_recursively calls made with that key.
C19_OneRemovalPerKeyWithUseCount ==
    (is_finalized /\ ~late) =>
        /\ \A key \in Range(UseOrder) :
               /\ Cardinality(RemovalsOf(Records(transcript.v), key)) = 1
               /\ \A p \in RemovalsOf(Records(transcript.v), key) :
                      Records(transcript.v)[p] =
                          make_kv_count(make_kv(key, queries[key]),
                                        Occurrences(calls, key)
                                        + Occurrences(internal_insertions, key))
        /\ \A p \in Removals(Records(transcript.v)) :
               Records(transcript.v)[p].car.car \in Range(UseOrder)
\* a finalized transcript with a key consumed by a Scope::query call and by two
\* query_recursively calls
C19_Witness ==
    /\ is_finalized /\ ~late
    /\ \E key \in Range(UseOrder) :
           /\ Occurrences(calls, key) = 1
           /\ Occurrences(internal_insertions, key) = 2
           /\ \E p \in RemovalsOf(Records(transcript.v), key) :
                  Records(transcript.v)[p].cdr = num(3)

\* the subqueries registered under a key, in call order
DependenciesOf(key) == IF key \in DOMAIN dependencies THEN dependencies[key] ELSE <<>>
\* the records from position p - d on are the insertion records of deps, and
\* what precedes them is the top-level block or a removal record
PrecededByDependencies(recs, p, deps) ==
    /\ p - Len(deps) > Len(toplevel_insertions)
    /\ \A i \in DOMAIN deps :
           recs[p - Len(deps) + i - 1] =
               make_kv(Query_to_ptr(deps[i]), queries[Query_to_ptr(deps[i])])
    /\ \/ p - Len(deps) - 1 = Len(toplevel_insertions)
       \/ IsRemoval(recs[p - Len(deps) - 1])

\* C20: with transcribe_internal_insertions true, the removal record of each key
\* is immediately preceded by one insertion record per entry of its
\* dependencies, in recorded call order with duplicates repeated, and by nothing
\* else (the records of two subqueries come in the order of the two); with false, the transcript holds no subquery insertion record: after
\* the top-level insertions every record is a removal record.
C20_DependenciesBeforeRemoval ==
    (is_finalized /\ ~late) =>
        IF transcribe_internal_insertions
        THEN /\ \A p \in Removals(Records(transcript.v)) :
                    PrecededByDependencies(
                        Records(transcript.v), p,
                        DependenciesOf(Records(transcript.v)[p].car.car))
             /\ \A a, b \in DOMAIN queries :
                    bt_dependency_records(<<Query_from_ptr(count, a).v,
                                            Query_from_ptr(count, b).v>>)
                        = <<make_kv(a, queries[a]), make_kv(b, queries[b])>>
        ELSE /\ \A p \in DOMAIN Records(transcript.v) :
                    IsRemoval(Records(transcript.v)[p]) <=> p > Len(toplevel_insertions)
             /\ Len(Records(transcript.v)) =
                    Len(toplevel_insertions) + Cardinality(Range(UseOrder))
\* a transcript with internal insertions transcribed, in which the removal of a
\* key follows the two insertion records of its two subquery calls
C20_Witness ==
    /\ is_finalized /\ ~late /\ transcribe_internal_insertions
    /\ \E p \in Removals(Records(transcript.v)) :
           /\ Len(DependenciesOf(Records(transcript.v)[p].car.car)) = 2
           /\ ~IsRemoval(Records(transcript.v)[p - 1])
           /\ Records(transcript.v)[p - 1] = Records(transcript.v)[p - 2]

\* the keys proved in the slots of the passes so far, in slot order
RECURSIVE SlotKeys(_)
SlotKeys(slots) ==
    IF slots = <<>> THEN <<>>
    ELSE (IF Head(slots).some THEN <<Head(slots).v>> ELSE <<>>) \o SlotKeys(Tail(slots))
RECURSIVE ProvedKeys(_)
ProvedKeys(steps) ==
    IF steps = <<>> THEN <<>>
    ELSE SlotKeys(Head(steps).slots) \o ProvedKeys(Tail(steps))
\* the keys of the removal records of a transcript, in emission order
RECURSIVE RemovalKeys(_)
RemovalKeys(recs) ==
    IF recs = <<>> THEN <<>>
    ELSE (IF IsRemoval(Head(recs)) THEN <<Head(recs).car.car>> ELSE <<>>)
         \o RemovalKeys(Tail(recs))

\* C21: Scope::synthesize dispatches the CoroutineCircuit batches of the
\* families in ascending family index order, and within a family in the order of
\* unique_inserted_keys: the keys are proved in the order in which
\* build_transcript emitted their removal records.
C21_BatchesInRemovalOrder ==
    (circuit.pc \in {"steps", "done"} /\ ~late) =>
        /\ \A i, j \in DOMAIN circuit.steps :
               i < j => circuit.steps[i].index <= circuit.steps[j].index
        /\ Len(ProvedKeys(circuit.steps)) <= Len(RemovalKeys(Records(transcript.v)))
        /\ ProvedKeys(circuit.steps) =
               SubSeq(RemovalKeys(Records(transcript.v)), 1,
                      Len(ProvedKeys(circuit.steps)))

\* C22: CircuitScope::synthesize_insert_query always adds the record to the
\* accumulator (its net count goes up by one, no other changes) and appends it
\* to the circuit transcript iff is_toplevel or transcribe_internal_insertions;
\* so after synthesize_insert_toplevel_queries the circuit transcript holds
\* every top-level record, in order, whatever the flag.
C22_InsertAddsAndTranscribesTopLevel ==
    (aborted = "" /\ circuit.pc = "steps") =>
        /\ \A key \in DOMAIN queries : \A is_toplevel \in BOOLEAN :
               \E res \in {synthesize_insert_query(circuit.acc, circuit.transcript,
                                                   key, queries[key], is_toplevel)} :
                   /\ res.err = ""
                   /\ \A kv \in DOMAIN res.acc \cup DOMAIN circuit.acc :
                          acc_get(res.acc, kv) =
                              acc_get(circuit.acc, kv)
                              + (IF kv = cons(key, queries[key]) THEN 1 ELSE 0)
                   /\ res.transcript =
                          IF is_toplevel \/ transcribe_internal_insertions
                          THEN cons(cons(key, queries[key]), circuit.transcript)
                          ELSE circuit.transcript
        /\ circuit.steps = <<>> =>
               /\ Records(circuit.transcript) = toplevel_insertions
               /\ \A kv \in Range(toplevel_insertions) :
                      acc_get(circuit.acc, kv) = Occurrences(toplevel_insertions, kv)
\* the top-level queries of a scope that does not transcribe internal insertions
\* were inserted, two of them, and are in the circuit transcript
C22_Witness ==
    /\ aborted = "" /\ circuit.pc = "steps" /\ circuit.steps = <<>>
    /\ ~transcribe_internal_insertions
    /\ Len(toplevel_insertions) = 2
    /\ Records(circuit.transcript) = toplevel_insertions

\* the steps run for family f
StepsOf(f) == {i \in DOMAIN circuit.steps : circuit.steps[i].index = f}

\* C23: for a family with n unique keys and width rc, Scope::synthesize runs
\* ceil(n/rc) CoroutineCircuit steps; each step has exactly rc prove slots, the
\* real ones first and the rest dummy; every unique key is proved in exactly
\* one real slot and nothing else is; and the keys.len() <= rc assertion of
\* CoroutineCircuit::new never fails.
C23_ChunksOfWidthRc ==
    /\ aborted # "assertion failed: keys.len() <= rc"
    /\ \A i \in DOMAIN circuit.steps :
           /\ Len(circuit.steps[i].slots) = rc_for_query(circuit.steps[i].index)
           /\ \A a, b \in DOMAIN circuit.steps[i].slots :
                  (a < b /\ circuit.steps[i].slots[b].some) => circuit.steps[i].slots[a].some
           /\ circuit.steps[i].slots[1].some
    /\ (aborted = "" /\ circuit.pc \in {"steps", "done"} /\ circuit.work = <<>>) =>
           /\ \A f \in DOMAIN unique_inserted_keys :
                  /\ Cardinality(StepsOf(f)) =
                         (Len(unique_inserted_keys[f]) + rc_for_query(f) - 1)
                             \div rc_for_query(f)
                  /\ \A key \in Range(unique_inserted_keys[f]) :
                         /\ Occurrences(ProvedKeys(circuit.steps), key) = 1
                         /\ \A i \in DOMAIN circuit.steps :
                                key \in Range(SlotKeys(circuit.steps[i].slots))
                                    => circuit.steps[i].index = f
           /\ \A key \in Range(ProvedKeys(circuit.steps)) :
                  \E f \in DOMAIN unique_inserted_keys : key \in Range(unique_inserted_keys[f])
\* a family of five unique keys was proved at width two: three steps, the
\* last padded with a dummy slot
C23_Witness ==
    /\ aborted = "" /\ circuit.pc = "done" /\ default_rc = 2
    /\ \E f \in DOMAIN unique_inserted_keys :
           /\ Len(unique_inserted_keys[f]) = 5
           /\ Cardinality(StepsOf(f)) = 3
           /\ \E i \in StepsOf(f) : ~circuit.steps[i].slots[2].some

\* the step in which Scope::synthesize is entered
SynthesizeEntered == circuit.pc = "idle" /\ last'.op = "synthesize"
\* the cells and the unique keys are left as they are, and nothing aborts
NotFinalizedAgain ==
    /\ r' = r /\ transcript' = transcript
    /\ unique_inserted_keys' = unique_inserted_keys
    /\ aborted' \notin {"r has already been set", "transcript already finalized"}

C25_NoRFromEmptyTranscript ==
    [][/\ (aborted = "" /\ last'.op = "finalize_transcript") =>
              IF calls = <<>>
              THEN aborted' # "" /\ r' = None /\ transcript' = None
              ELSE (aborted' = "" /\ ~is_finalized) =>
                       /\ transcript'.some /\ transcript'.v.tag = "Cons"
                       /\ Records(transcript'.v) # <<>>
                       /\ r' = Some(Transcript_r(transcript'.v))
       /\ r'.some =>
              /\ transcript'.some /\ transcript'.v.tag = "Cons"
              /\ r'.v = Transcript_r(transcript'.v)
              /\ calls # <<>>]_vars
\* finalize_transcript was called on a scope without a query and aborted, r and
\* the transcript unset
C25_Witness ==
    /\ calls = <<>> /\ last.op = "finalize_transcript"
    /\ aborted # "" /\ r = None /\ transcript = None

\* the families that have a key among the insertions
FamiliesUsed == {FamilyOf(key) : key \in Range(UseOrder)}

\* C26: transcript construction goes through every family index in
\* 0..Q::count(), and a family for which no key was recorded contributes no
\* record and does not make finalize_transcript abort: a scope whose queries all
\* belong to one of several families still finalizes.
C26_EmptyFamilyFinalizes ==
    [][(aborted = "" /\ last'.op = "finalize_transcript" /\ ~is_finalized
        /\ calls # <<>> /\ FamiliesUsed # 0..(count - 1)) =>
           /\ aborted' = ""
           /\ is_finalized'
           /\ DOMAIN unique_inserted_keys' = FamiliesUsed]_vars

\* C27: in every reachable state LogMemo::is_finalized() is true if and only if
\* r has been set: the r cell and the transcript cell are both set or both
\* unset, and when set r is the hash of the stored transcript.
C27_FinalizedIffRSet ==
    /\ is_finalized <=> r.some
    /\ is_finalized => r = Some(Transcript_r(transcript.v))
\* a finalize_transcript has set both cells
C27_Witness ==
    /\ last.op = "finalize_transcript" /\ aborted = ""
    /\ is_finalized /\ r.some

\* a step that enters Scope::synthesize and gets past its conversion of the
\* memoset to circuit form
MemosetConverted ==
    /\ circuit.pc \in {"idle", "done"} /\ last'.op = "synthesize"
    /\ aborted' = "" /\ circuit'.pc = "steps"

\* C28: the allocated r wire is initialised only after r has been set and
\* always from that r value: whenever the cell is set, r is set and the wire
\* carries r; in every run of Scope::synthesize the conversion of the memoset
\* to circuit form happens with the transcript finalized and hands the circuit
\* the value of that wire; and once the cell holds a wire, every later
\* conversion leaves that same wire (of the constraint system it was allocated
\* in) in the cell instead of allocating again.
C28_AllocatedROnceFromR ==
    [][/\ allocated_r'.some =>
            /\ r'.some /\ allocated_r'.v.some
            /\ allocated_r'.v.v.value = r'.v
       /\ MemosetConverted =>
            /\ is_finalized' /\ allocated_r'.some
            /\ circuit'.r = allocated_r'.v.v.value
       /\ allocated_r.some => allocated_r' = allocated_r]_vars

\* a second Scope::synthesize, in its own constraint system, runs on the wire
\* the first one allocated
C28_Witness ==
    /\ circuit.pass = 1 /\ circuit.pc = "steps" /\ aborted = ""
    /\ allocated_r.some /\ allocated_r.v.some
    /\ allocated_r.v.v = alloc_infallible(0, r.v)
    /\ circuit.r = r.v

\* the keys whose eval is running
Evaluating == {stack[i].form : i \in DOMAIN stack}

\* C29: across any sequence of Scope::query and query_recursively calls a
\* query's eval is invoked at most once per distinct key (an eval is invoked
\* only for a key that has no value in queries and whose eval is not running,
\* and the eval that returns leaves its key with the returned value in queries),
\* and once a key has a value in queries that value never changes and the key
\* is never removed.
C29_EvalOncePerKey ==
    [][/\ \A k \in DOMAIN queries : k \in DOMAIN queries' /\ queries'[k] = queries[k]
       /\ Len(stack') > Len(stack) =>
            /\ Last(stack').form \notin DOMAIN queries
            /\ Last(stack').form \notin Evaluating
       /\ Len(stack') < Len(stack) =>
            /\ Last(stack).form \in DOMAIN queries'
            /\ last'.ret = Some(queries'[Last(stack).form])
       /\ queries' # queries =>
            /\ Len(stack') < Len(stack)
            /\ DOMAIN queries' = DOMAIN queries \cup {Last(stack).form}]_vars

\* a key queried a second time is answered from queries, next to another
\* memoized key
C29_Witness ==
    /\ Len(calls) = 2 /\ calls[1] = calls[2] /\ stack = <<>> /\ aborted = ""
    /\ Cardinality(DOMAIN queries) >= 2
    /\ last = [op |-> "query", ret |-> Some(queries[calls[2]])]

\* a step that is a query_recursively call being made (its return, when the
\* child has to be evaluated first, is a later step that pops the child's frame)
QueryRecursivelyCalled ==
    /\ stack # <<>> /\ last'.op = "query_recursively" /\ Len(stack') >= Len(stack)
\* the child of the call the eval on top of the stack makes next
NextChild == eval_calls(Last(stack).query)[Len(Last(stack).vals) + 1]
\* the child of the call that has just returned to the eval on top of the stack
ReturnedChild == eval_calls(Last(stack').query)[Len(Last(stack').vals)]
\* the subqueries registered under a key after the step
DependenciesAfter(key) == IF key \in DOMAIN dependencies' THEN dependencies'[key] ELSE <<>>

\* C30: every query_recursively(parent, child) call appends the child's key to
\* internal_insertions, also when the child is memoized (so a key may occur
\* several times); the child is appended to dependencies[parent] only when its
\* value is in queries, at the end of the parent's list and leaving every other
\* list alone; and the list of a parent that is being evaluated is the calls
\* it has made so far, in call order with duplicates kept, as are two further
\* pushes of different children.
C30_RecursiveCallsRecorded ==
    [][/\ QueryRecursivelyCalled =>
            internal_insertions' = Append(internal_insertions, Query_to_ptr(NextChild))
       /\ dependencies' # dependencies =>
            \E parent \in {Query_to_ptr(Last(stack').query)} :
               /\ Query_to_ptr(ReturnedChild) \in DOMAIN queries'
               /\ dependencies' = map_insert(dependencies, parent,
                                      Append(DependenciesOf(parent), ReturnedChild))
               /\ \A n, m \in 0..MaxArg :
                      map_push(map_push(dependencies', parent, Factorial(num(n))),
                               parent, Factorial(num(m)))[parent]
                          = dependencies'[parent] \o <<Factorial(num(n)), Factorial(num(m))>>
       /\ \A i \in DOMAIN stack' :
              DependenciesAfter(stack'[i].form) =
                  SubSeq(eval_calls(stack'[i].query), 1, Len(stack'[i].vals))]_vars

\* a parent's second call found its child memoized: the key is twice in
\* internal_insertions and the child twice in the parent's list
C30_Witness ==
    /\ Len(stack) = 1 /\ aborted = ""
    /\ Len(Last(stack).vals) = 2
    /\ Len(internal_insertions) = 2 /\ internal_insertions[1] = internal_insertions[2]
    /\ internal_insertions[1] \in DOMAIN queries
    /\ Len(DependenciesOf(Last(stack).form)) = 2
    /\ DependenciesOf(Last(stack).form)[1] = DependenciesOf(Last(stack).form)[2]

\* the forms whose head is the symbol of no family of the implementation
Undecodable ==
    {form \in Forms : \A i \in 0..(count - 1) : form.car.name # SymbolNames[i + 1]}

\* C31: Scope::query on a form that decodes to no query family aborts, and it
\* does so before changing any Scope state: queries, toplevel_insertions,
\* internal_insertions, dependencies and the multiset are as before the call
\* (and no evaluation was started).
C31_InvalidQueryAbortsUnchanged ==
    [][(calls' # calls /\ Last(calls') \in Undecodable) =>
            /\ aborted' = "invalid query"
            /\ stack' = <<>>
            /\ UNCHANGED <<queries, toplevel_insertions, internal_insertions,
                           dependencies, multiset>>]_vars

\* a query with a subquery has returned and the next call, on a form of a
\* family the implementation does not have, aborted
C31_Witness ==
    /\ aborted = "invalid query" /\ last = [op |-> "query", ret |-> None]
    /\ Len(calls) = 2 /\ calls[2] \in Undecodable
    /\ Len(toplevel_insertions) = 1 /\ Len(internal_insertions) >= 1
    /\ Cardinality(DOMAIN queries) = 2

\* C32: Scope::query eventually returns for every query whose subquery graph
\* is finite and acyclic (those of every family here): a call that has started
\* evaluating eventually returns a value with no evaluation left running, and
\* then every evaluation that was started, for the call's form or for a
\* subquery, has completed with its key memoized; for factorial(n) the nesting
\* depth of evaluations is at most n + 1.
C32_QueryTerminates ==
    /\ [](stack # <<>> /\ stack[1].query.index = 0
             => Len(stack) <= stack[1].query.arg.n + 1)
    /\ [](stack = <<>> =>
             \A form \in (Range(calls) \ Undecodable) \cup Range(internal_insertions) :
                 form \in DOMAIN queries)
    /\ (stack # <<>>) ~>
           (stack = <<>> /\ aborted = "" /\ last.op = "query" /\ last.ret.some)

\* factorial(MaxFact) has returned after evaluating every factorial below it,
\* each nested in the one above
C32_Witness ==
    /\ stack = <<>> /\ aborted = ""
    /\ calls = <<Query_to_ptr(Factorial(num(MaxFact)))>>
    /\ last = [op |-> "query", ret |-> Some(queries[calls[1]])]
    /\ Cardinality(DOMAIN queries) = MaxFact + 1
    /\ \A n \in 1..MaxFact :
           DependenciesOf(Query_to_ptr(Factorial(num(n)))) = <<Factorial(num(n - 1))>>

\* the sum of the counts a multiset holds for the records in D
RECURSIVE TotalCount(_, _)
TotalCount(ms, D) ==
    IF D = {} THEN 0
    ELSE LET kv == CHOOSE x \in D : TRUE
         IN  ms[kv] + TotalCount(ms, D \ {kv})
\* the total length of the dependency lists of the keys in D
RECURSIVE TotalLength(_, _)
TotalLength(deps, D) ==
    IF D = {} THEN 0
    ELSE LET key == CHOOSE x \in D : TRUE
         IN  Len(deps[key]) + TotalLength(deps, D \ {key})

\* C33: whenever no evaluation is in progress, the sum of all multiset counts
\* equals the number of top-level insertions plus the number of internal
\* insertions, and the number of internal insertions equals the total length
\* of all dependency lists.
C33_CountsBalance ==
    stack = <<>> =>
        /\ TotalCount(multiset, DOMAIN multiset)
               = Len(toplevel_insertions) + Len(internal_insertions)
        /\ Len(internal_insertions) = TotalLength(dependencies, DOMAIN dependencies)

\* two calls have returned, with subqueries, and some record was added more
\* than once
C33_Witness ==
    /\ stack = <<>> /\ aborted = ""
    /\ Len(toplevel_insertions) = 2 /\ Len(internal_insertions) >= 2
    /\ \E kv \in DOMAIN multiset : multiset[kv] >= 2
    /\ TotalCount(multiset, DOMAIN multiset) = 2 + Len(internal_insertions)

\* build_transcript after its two insert loops: the buckets of records by key
\* (`insertions`), unique_keys, and the panic the loops ended in
Buckets ==
    bt_insert_internal(
        bt_insert_toplevel([insertions |-> EmptyMap, unique_keys |-> EmptyMap,
                            panic |-> ""],
                           toplevel_insertions),
        internal_insertions)

\* C34: for any scope state reached through Scope::query calls that have
\* returned, build_transcript never hits its lookup aborts "value missing for
\* key" and "value missing for dependency key" (every inserted key and every
\* registered dependency has a value in queries), and each key's bucket of
\* records holds exactly one record, the (key . value) of the key's memoized
\* value.
C34_BuildTranscriptLookupsSucceed ==
    stack = <<>> =>
        /\ build_transcript.panic \notin
               {"value missing for key", "value missing for dependency key"}
        /\ Range(internal_insertions) \subseteq DOMAIN queries
        /\ \A kv \in Range(toplevel_insertions) : kv.car \in DOMAIN queries
        /\ \A key \in DOMAIN dependencies : ~bt_dependency_missing(key)
        /\ \E st \in {Buckets} :
              /\ st.panic = ""
              /\ DOMAIN st.insertions =
                     {kv.car : kv \in Range(toplevel_insertions)}
                         \cup Range(internal_insertions)
              /\ \A key \in DOMAIN st.insertions :
                     st.insertions[key] = <<make_kv(key, queries[key])>>

\* two calls on the same form with a subquery have returned: the buckets of
\* the form and of its subquery hold one record each for several insertions
C34_Witness ==
    /\ stack = <<>> /\ aborted = ""
    /\ Len(toplevel_insertions) = 2
    /\ toplevel_insertions[1] = toplevel_insertions[2]
    /\ Len(internal_insertions) >= 1
    /\ DOMAIN dependencies # {}
    /\ DOMAIN Buckets.insertions = DOMAIN queries
    /\ \A key \in DOMAIN queries : Len(Buckets.insertions[key]) = 1

====
